---- MODULE Spec2Model ----
(***************************************************************************)
(* Model of ef/ef_analysis.py: the enrichment-factor pipeline.             *)
(*                                                                         *)
(* Spec   follows ef_analysis from read_events to the call of              *)
(*        compute_q_values (association index, marginal sums, enrichment   *)
(*        factors, Bonferroni pre-filter, contingency tables).             *)
(* SpecQ  follows compute_q_values and the report loop of ef_analysis,     *)
(*        started from the states in which ef_analysis calls               *)
(*        compute_q_values.                                                *)
(*                                                                         *)
(* A dict is a function whose DOMAIN is its key set.  An enrichment factor *)
(* is the exact fraction <<numerator, denominator>>; a p-value or q-value  *)
(* is a numerator over PScale.  Floating-point rounding is not modelled.   *)
(***************************************************************************)
EXTENDS Integers, Sequences, FiniteSets, TLC

\* ---------------------------------------------------------------- inputs
Molecules == {"m1", "m2", "m3"}
Events == {"e1", "e2"}
Targets == {"t1", "t2"}
Names == {"nameA", "nameB"}

MaxMinPairs == 2
MaxEfCutoff == 2
CUTOFF_MINPAIRS == 4
\* p-values and q-values are numerators over PScale
PScale == 2
PVals == {0, 1}
QCutoffs == {1, 3}

\* An optional integer is None or Some(n)
None == <<>>
Some(n) == <<n>>

VARIABLES
    pc,                \* the position of ef_analysis
    min_pairs, ef_cutoff, qvalue_cutoff, bonferroni,
    events_to_drugs,   \* read_events: event -> set of molecules
    has_event,
    targets_to_drugs,  \* read_results: target -> set of molecules
    targets,           \* read_results: target -> name
    rejects,           \* read_results: molecules skipped for having no event
    has_target,
    first_row,         \* history: target -> name of the first row naming it
    first_kept,        \* history: target -> name of the first row not rejected
    pruned,            \* prune_events: event -> set of molecules
    E, T,              \* precompute_sums
    efs, P, ef_errors, \* compute_efs
    bonferroni_count,
    contingencies,     \* map_contingency_tables
    target_event_pairs, p_vals, q_vals,  \* compute_q_values
    correction,        \* compute_q_values: the branch taken
    out,               \* ef_analysis: the rows yielded so far
    idx                \* ef_analysis: position of the report loop in the zip

vars == <<pc, min_pairs, ef_cutoff, bonferroni, events_to_drugs, has_event,
          targets_to_drugs, targets, rejects, has_target, first_row,
          first_kept, pruned, E, T, efs, P, ef_errors, bonferroni_count,
          contingencies, qvalue_cutoff, target_event_pairs, p_vals, q_vals,
          correction, out, idx>>

q_vars == <<target_event_pairs, p_vals, q_vals, correction, out, idx>>

\* ---------------------------------------------------------------- helpers
EmptyDict == [x \in {} |-> {}]

\* defaultdict(set)[k]
Get(in_dict, k) == IF k \in DOMAIN in_dict THEN in_dict[k] ELSE {}

\* defaultdict(set)[k].add(x)
AddTo(in_dict, k, x) ==
    [y \in DOMAIN in_dict \cup {k} |-> IF y = k THEN Get(in_dict, k) \cup {x}
                                       ELSE in_dict[y]]

\* dict[k] = v
Put(in_dict, k, v) ==
    [y \in DOMAIN in_dict \cup {k} |-> IF y = k THEN v ELSE in_dict[y]]

RECURSIVE SumOver(_, _)
\* sum(f[x] for x in S)
SumOver(f, S) ==
    IF S = {} THEN 0
    ELSE LET x == CHOOSE y \in S : TRUE
         IN f[x] + SumOver(f, S \ {x})

flatten_setdict(in_dict) == UNION {in_dict[k] : k \in DOMAIN in_dict}

flip_setdict(in_dict) ==
    [x \in flatten_setdict(in_dict) |-> {k \in DOMAIN in_dict : x \in in_dict[k]}]

\* ---------------------------------------------------------------- Init
Init ==
    /\ pc = "read_events"
    /\ min_pairs \in 0..MaxMinPairs
    /\ ef_cutoff \in 1..MaxEfCutoff
    /\ qvalue_cutoff = PScale   \* read only by the report loop, see InitQ
    /\ bonferroni \in BOOLEAN
    /\ events_to_drugs = EmptyDict
    /\ has_event = {}
    /\ targets_to_drugs = EmptyDict
    /\ targets = EmptyDict
    /\ rejects = {}
    /\ has_target = {}
    /\ first_row = EmptyDict
    /\ first_kept = EmptyDict
    /\ pruned = EmptyDict
    /\ E = EmptyDict
    /\ T = EmptyDict
    /\ efs = EmptyDict
    /\ P = 0
    /\ ef_errors = {}
    /\ bonferroni_count = None
    /\ contingencies = EmptyDict
    /\ target_event_pairs = <<>>
    /\ p_vals = <<>>
    /\ q_vals = <<>>
    /\ correction = "none"
    /\ out = <<>>
    /\ idx = 0

\* ---------------------------------------------------------------- read_events
read_events_row ==
    /\ pc = "read_events"
    /\ \E cid \in Molecules, eid \in Events :
          events_to_drugs' = AddTo(events_to_drugs, eid, cid)
    /\ UNCHANGED <<pc, min_pairs, ef_cutoff, bonferroni, qvalue_cutoff, q_vars, has_event,
                   targets_to_drugs, targets, rejects, has_target, first_row,
                   first_kept, pruned, E, T, efs, P, ef_errors,
                   bonferroni_count, contingencies>>

read_events_return ==
    /\ pc = "read_events"
    /\ has_event' = flatten_setdict(events_to_drugs)
    /\ pc' = "read_results"
    /\ UNCHANGED <<min_pairs, ef_cutoff, bonferroni, qvalue_cutoff, q_vars, events_to_drugs,
                   targets_to_drugs, targets, rejects, has_target, first_row,
                   first_kept, pruned, E, T, efs, P, ef_errors,
                   bonferroni_count, contingencies>>

\* ---------------------------------------------------------------- read_results
\* One row of the loop: the new <<targets_to_drugs, targets, rejects>>.
results_row_overwrite(t2d, tgs, rej, he, cid, tid, name) ==
    IF cid \notin he
    THEN <<t2d, tgs, rej \cup {cid}>>
    ELSE <<AddTo(t2d, tid, cid), Put(tgs, tid, name), rej>>

results_row(t2d, tgs, rej, he, cid, tid, name) ==
    IF cid \notin he
    THEN <<t2d, tgs, rej \cup {cid}>>
    ELSE <<AddTo(t2d, tid, cid),
           IF tid \notin DOMAIN tgs THEN Put(tgs, tid, name) ELSE tgs, rej>>

read_results_row ==
    /\ pc = "read_results"
    /\ \E cid \in Molecules, tid \in Targets, name \in Names :
          LET r == results_row(targets_to_drugs, targets, rejects, has_event,
                               cid, tid, name)
          IN /\ targets_to_drugs' = r[1]
             /\ targets' = r[2]
             /\ rejects' = r[3]
             /\ first_row' = IF tid \in DOMAIN first_row THEN first_row
                             ELSE Put(first_row, tid, name)
             /\ first_kept' = IF tid \in DOMAIN first_kept \/ cid \notin has_event
                              THEN first_kept
                              ELSE Put(first_kept, tid, name)
    /\ UNCHANGED <<pc, min_pairs, ef_cutoff, bonferroni, qvalue_cutoff, q_vars, events_to_drugs,
                   has_event, has_target, pruned, E, T, efs, P, ef_errors,
                   bonferroni_count, contingencies>>

read_results_return ==
    /\ pc = "read_results"
    /\ has_target' = flatten_setdict(targets_to_drugs)
    /\ pc' = "prune_events"
    /\ UNCHANGED <<min_pairs, ef_cutoff, bonferroni, qvalue_cutoff, q_vars, events_to_drugs,
                   has_event, targets_to_drugs, targets, rejects, first_row,
                   first_kept, pruned, E, T, efs, P, ef_errors,
                   bonferroni_count, contingencies>>

\* ---------------------------------------------------------------- prune_events
prune_events_keep_all(in_dict, he, ht) == in_dict

prune_events_drop_empty(in_dict, he, ht) ==
    [event \in {k \in DOMAIN in_dict : in_dict[k] \cap ht # {}} |->
        in_dict[event] \cap ht]

prune_events(in_dict, he, ht) ==
    [event \in DOMAIN in_dict |-> in_dict[event] \cap ht]

call_prune_events ==
    /\ pc = "prune_events"
    /\ pruned' = prune_events(events_to_drugs, has_event, has_target)
    /\ pc' = "precompute_sums"
    /\ UNCHANGED <<min_pairs, ef_cutoff, bonferroni, qvalue_cutoff, q_vars, events_to_drugs,
                   has_event, targets_to_drugs, targets, rejects, has_target,
                   first_row, first_kept, E, T, efs, P, ef_errors,
                   bonferroni_count, contingencies>>

\* ---------------------------------------------------------------- precompute_sums
\* <<assertion holds, E, T>>
precompute_sums(ev, tg) ==
    LET drugs_to_targets == flip_setdict(tg)
        drugs_to_events == flip_setdict(ev)
    IN <<Cardinality(DOMAIN drugs_to_events) = Cardinality(DOMAIN drugs_to_targets),
         [event \in DOMAIN ev |->
             SumOver([drug \in ev[event] |->
                         Cardinality(Get(drugs_to_targets, drug))], ev[event])],
         [target \in DOMAIN tg |->
             SumOver([drug \in tg[target] |->
                         Cardinality(Get(drugs_to_events, drug))], tg[target])]>>

call_precompute_sums ==
    /\ pc = "precompute_sums"
    /\ LET r == precompute_sums(pruned, targets_to_drugs)
       IN IF r[1]
          THEN /\ E' = r[2]
               /\ T' = r[3]
               /\ pc' = "compute_efs"
          ELSE /\ pc' = "AssertionError"
               /\ UNCHANGED <<E, T>>
    /\ UNCHANGED <<min_pairs, ef_cutoff, bonferroni, qvalue_cutoff, q_vars, events_to_drugs,
                   has_event, targets_to_drugs, targets, rejects, has_target,
                   first_row, first_kept, pruned, efs, P, ef_errors,
                   bonferroni_count, contingencies>>

\* ---------------------------------------------------------------- compute_efs
\* pte = len(t_drugs & e_drugs)
Pte(ev, tg, target, event) == Cardinality(tg[target] \cap ev[event])

\* The second pass: efs[key] = ef * P
Rescale(raw, total) == [key \in DOMAIN raw |-> <<raw[key][1] * total, raw[key][2]>>]

\* P accumulated only for the pairs that are kept
compute_efs_P_of_kept(sumE, sumT, ev, tg, mp, cut) ==
    LET visited == {event \in DOMAIN ev : sumE[event] # 0}
        total == SumOver([event \in visited |->
                     SumOver([target \in DOMAIN tg |->
                                 IF Pte(ev, tg, target, event) < mp THEN 0
                                 ELSE Pte(ev, tg, target, event)], DOMAIN tg)],
                     visited)
        kept == {key \in (DOMAIN tg) \X visited : Pte(ev, tg, key[1], key[2]) >= mp}
        failed == {key \in kept : sumE[key[2]] * sumT[key[1]] = 0}
        raw == [key \in kept \ failed |->
                   <<Pte(ev, tg, key[1], key[2]), sumE[key[2]] * sumT[key[1]]>>]
    IN <<Rescale(raw, total), total, failed>>

\* without the "if ee == 0: continue" of the outer loop
compute_efs_no_skip(sumE, sumT, ev, tg, mp, cut) ==
    LET visited == DOMAIN ev
        total == SumOver([event \in visited |->
                     SumOver([target \in DOMAIN tg |-> Pte(ev, tg, target, event)],
                             DOMAIN tg)], visited)
        kept == {key \in (DOMAIN tg) \X visited : Pte(ev, tg, key[1], key[2]) >= mp}
        failed == {key \in kept : sumE[key[2]] * sumT[key[1]] = 0}
        raw == [key \in kept \ failed |->
                   <<Pte(ev, tg, key[1], key[2]), sumE[key[2]] * sumT[key[1]]>>]
    IN <<Rescale(raw, total), total, failed>>

\* "pte <= min_pairs" in place of "pte < min_pairs"
compute_efs_off_by_one(sumE, sumT, ev, tg, mp, cut) ==
    LET visited == {event \in DOMAIN ev : sumE[event] # 0}
        total == SumOver([event \in visited |->
                     SumOver([target \in DOMAIN tg |-> Pte(ev, tg, target, event)],
                             DOMAIN tg)], visited)
        kept == {key \in (DOMAIN tg) \X visited : Pte(ev, tg, key[1], key[2]) > mp}
        failed == {key \in kept : sumE[key[2]] * sumT[key[1]] = 0}
        raw == [key \in kept \ failed |->
                   <<Pte(ev, tg, key[1], key[2]), sumE[key[2]] * sumT[key[1]]>>]
    IN <<Rescale(raw, total), total, failed>>

\* <<efs, P, pairs that took the except branch>>
compute_efs(sumE, sumT, ev, tg, mp, cut) ==
    LET visited == {event \in DOMAIN ev : sumE[event] # 0}
        total == SumOver([event \in visited |->
                     SumOver([target \in DOMAIN tg |-> Pte(ev, tg, target, event)],
                             DOMAIN tg)], visited)
        kept == {key \in (DOMAIN tg) \X visited : Pte(ev, tg, key[1], key[2]) >= mp}
        failed == {key \in kept : sumE[key[2]] * sumT[key[1]] = 0}
        raw == [key \in kept \ failed |->
                   <<Pte(ev, tg, key[1], key[2]), sumE[key[2]] * sumT[key[1]]>>]
    IN <<Rescale(raw, total), total, failed>>

call_compute_efs ==
    /\ pc = "compute_efs"
    /\ LET r == compute_efs(E, T, pruned, targets_to_drugs, min_pairs, ef_cutoff)
       IN /\ efs' = r[1]
          /\ P' = r[2]
          /\ ef_errors' = r[3]
    /\ pc' = "bonferroni"
    /\ UNCHANGED <<min_pairs, ef_cutoff, bonferroni, qvalue_cutoff, q_vars, events_to_drugs,
                   has_event, targets_to_drugs, targets, rejects, has_target,
                   first_row, first_kept, pruned, E, T, bonferroni_count,
                   contingencies>>

\* ---------------------------------------------------------------- ef_analysis, lines 219-222
\* v >= ef_cutoff
EfAtLeast(ef, cut) == ef[1] >= cut * ef[2]

\* <<bonferroni_count, efs>>
bonferroni_filter_count_after(in_efs, cut, flag) ==
    LET kept == {key \in DOMAIN in_efs : EfAtLeast(in_efs[key], cut)}
    IN IF flag
       THEN <<Some(Cardinality(kept)), [key \in kept |-> in_efs[key]]>>
       ELSE <<None, in_efs>>

bonferroni_filter(in_efs, cut, flag) ==
    IF flag
    THEN <<Some(Cardinality(DOMAIN in_efs)),
           [key \in {k \in DOMAIN in_efs : EfAtLeast(in_efs[k], cut)} |-> in_efs[key]]>>
    ELSE <<None, in_efs>>

call_bonferroni_filter ==
    /\ pc = "bonferroni"
    /\ LET r == bonferroni_filter(efs, ef_cutoff, bonferroni)
       IN /\ bonferroni_count' = r[1]
          /\ efs' = r[2]
    /\ pc' = "map_contingency_tables"
    /\ UNCHANGED <<min_pairs, ef_cutoff, bonferroni, qvalue_cutoff, q_vars, events_to_drugs,
                   has_event, targets_to_drugs, targets, rejects, has_target,
                   first_row, first_kept, pruned, E, T, P, ef_errors,
                   contingencies>>

\* ---------------------------------------------------------------- map_contingency_tables
\* Counter().update(drugs) for every target's drugs
TargetCounts(tg) ==
    [x \in flatten_setdict(tg) |-> SumOver([target \in DOMAIN tg |->
                                      IF x \in tg[target] THEN 1 ELSE 0], DOMAIN tg)]

\* Counter()[x]
Count(counter, x) == IF x \in DOMAIN counter THEN counter[x] ELSE 0

\* table [[both, events], [targets, neither]] as <<both, events, targets, neither>>
map_contingency_tables_unweighted(in_efs, ev, tg) ==
    LET num_pairs == Cardinality(flatten_setdict(tg))
    IN [key \in DOMAIN in_efs |->
          LET e_drugs == ev[key[2]]
              t_drugs == tg[key[1]]
              both == Cardinality(e_drugs \cap t_drugs)
              events == Cardinality(e_drugs) - both
              tgts == Cardinality(t_drugs) - both
          IN <<both, events, tgts, num_pairs - both - events - tgts>>]

map_contingency_tables(in_efs, ev, tg) ==
    LET target_counts == TargetCounts(tg)
        num_pairs == SumOver(target_counts, DOMAIN target_counts)
    IN [key \in DOMAIN in_efs |->
          LET e_drugs == ev[key[2]]
              t_drugs == tg[key[1]]
              both == SumOver([x \in e_drugs \cap t_drugs |-> Count(target_counts, x)],
                              e_drugs \cap t_drugs)
              events == SumOver([x \in e_drugs |-> Count(target_counts, x)], e_drugs)
                        - both
              tgts == SumOver([x \in t_drugs |-> Count(target_counts, x)], t_drugs)
                      - both
          IN <<both, events, tgts, num_pairs - both - events - tgts>>]

call_map_contingency_tables ==
    /\ pc = "map_contingency_tables"
    /\ contingencies' = map_contingency_tables(efs, pruned, targets_to_drugs)
    /\ pc' = "compute_q_values"
    /\ UNCHANGED <<min_pairs, ef_cutoff, bonferroni, qvalue_cutoff, q_vars, events_to_drugs,
                   has_event, targets_to_drugs, targets, rejects, has_target,
                   first_row, first_kept, pruned, E, T, efs, P, ef_errors,
                   bonferroni_count>>

\* ---------------------------------------------------------------- Spec
Next ==
    \/ read_events_row
    \/ read_events_return
    \/ read_results_row
    \/ read_results_return
    \/ call_prune_events
    \/ call_precompute_sums
    \/ call_compute_efs
    \/ call_bonferroni_filter
    \/ call_map_contingency_tables

Spec == Init /\ [][Next]_vars

\* ---------------------------------------------------------------- compute_q_values
MaxTested == 3

\* enrichment factors of the pairs handed to compute_q_values
EfValues == {<<1, 1>>, <<3, 2>>, <<2, 1>>}

SomeTable == <<1, 0, 0, 1>>

Header == <<"uniprot_id", "targ_name", "event", "ef", "p-value", "q-value">>

Max(S) == CHOOSE x \in S : \A y \in S : y <= x

\* multipletests(p_vals, alpha=0.05, method='holm')[1]: the p-values in
\* ascending order times n, n-1, ..., 1, running maximum, clipped to 1
Holm(ps) ==
    LET n == Len(ps)
        Below(v) == Cardinality({j \in 1..n : ps[j] < v})
        Raw(j) == (n - Below(ps[j])) * ps[j]
        Acc(i) == Max({Raw(j) : j \in {l \in 1..n : ps[l] <= ps[i]}})
    IN [i \in 1..n |-> IF Acc(i) > PScale THEN PScale ELSE Acc(i)]

\* <<correction used, q_vals>>; "if bonferroni_count:" is false for None and for 0
q_values(ps, count) ==
    IF count # None /\ count[1] # 0
    THEN <<"Bonferroni", [i \in 1..Len(ps) |-> ps[i] * count[1]]>>
    ELSE <<"Holm", Holm(ps)>>

\* the states in which ef_analysis calls compute_q_values: the mapping of
\* enrichment factors (after the pre-filter when bonferroni is set), one table
\* per key, the count taken before the pre-filter
InitQ ==
    /\ pc = "compute_q_values"
    /\ min_pairs = CUTOFF_MINPAIRS
    /\ ef_cutoff \in 1..MaxEfCutoff
    /\ qvalue_cutoff \in QCutoffs
    /\ bonferroni \in BOOLEAN
    /\ \E keys \in SUBSET (Targets \X Events) :
          /\ Cardinality(keys) <= MaxTested
          /\ efs \in [keys -> EfValues]
          /\ contingencies = [key \in keys |-> SomeTable]
          /\ IF bonferroni
             THEN /\ bonferroni_count \in {Some(n) : n \in Cardinality(keys)..MaxTested}
                  /\ \A key \in keys : efs[key][1] >= ef_cutoff * efs[key][2]
             ELSE bonferroni_count = None
    /\ targets = [target \in Targets |-> IF target = "t1" THEN "nameA" ELSE "nameB"]
    /\ events_to_drugs = EmptyDict
    /\ has_event = {}
    /\ targets_to_drugs = EmptyDict
    /\ rejects = {}
    /\ has_target = {}
    /\ first_row = EmptyDict
    /\ first_kept = EmptyDict
    /\ pruned = EmptyDict
    /\ E = EmptyDict
    /\ T = EmptyDict
    /\ P = 0
    /\ ef_errors = {}
    /\ target_event_pairs = <<>>
    /\ p_vals = <<>>
    /\ q_vals = <<>>
    /\ correction = "none"
    /\ out = <<>>
    /\ idx = 0

up_vars == <<min_pairs, ef_cutoff, qvalue_cutoff, bonferroni, events_to_drugs,
             has_event, targets_to_drugs, targets, rejects, has_target,
             first_row, first_kept, pruned, E, T, efs, P, ef_errors,
             bonferroni_count, contingencies>>

SeqRange(seq) == {seq[i] : i \in 1..Len(seq)}

\* one turn of "for (target, event), table in contingencies.iteritems()":
\* the dict yields its keys once each in an order of its own, and
\* stats.chi2_contingency(table) returns some p-value
q_values_iteration ==
    /\ pc = "compute_q_values"
    /\ \E key \in DOMAIN contingencies \ SeqRange(target_event_pairs), pvalue \in PVals :
          /\ target_event_pairs' = Append(target_event_pairs, key)
          /\ p_vals' = Append(p_vals, pvalue)
    /\ UNCHANGED <<pc, up_vars, q_vals, correction, out, idx>>

q_values_return ==
    /\ pc = "compute_q_values"
    /\ DOMAIN contingencies = SeqRange(target_event_pairs)
    /\ LET r == q_values(p_vals, bonferroni_count)
       IN /\ correction' = r[1]
          /\ q_vals' = r[2]
    /\ pc' = "yield_header"
    /\ UNCHANGED <<up_vars, target_event_pairs, p_vals, out, idx>>

\* ---------------------------------------------------------------- ef_analysis, lines 227-237
yield_header ==
    /\ pc = "yield_header"
    /\ IF Len(target_event_pairs) = Cardinality(DOMAIN efs)
       THEN /\ out' = Append(out, Header)
            /\ idx' = 1
            /\ pc' = "report"
       ELSE /\ pc' = "AssertionError"
            /\ UNCHANGED <<out, idx>>
    /\ UNCHANGED <<up_vars, target_event_pairs, p_vals, q_vals, correction>>

passes_cutoffs_inclusive(ef, q_val, cut, qcut) ==
    ef[1] >= cut * ef[2] /\ q_val <= qcut

\* efs[te_pair] > ef_cutoff and q_val < qvalue_cutoff
passes_cutoffs(ef, q_val, cut, qcut) ==
    ef[1] > cut * ef[2] /\ q_val < qcut

\* one turn of the loop over zip(target_event_pairs, p_vals, q_vals); the row
\* is modelled by its target, name and event columns
report_row ==
    /\ pc = "report"
    /\ idx <= Len(target_event_pairs)
    /\ LET te_pair == target_event_pairs[idx]
       IN out' = IF passes_cutoffs(efs[te_pair], q_vals[idx], ef_cutoff, qvalue_cutoff)
                 THEN Append(out, <<te_pair[1], targets[te_pair[1]], te_pair[2]>>)
                 ELSE out
    /\ idx' = idx + 1
    /\ UNCHANGED <<pc, up_vars, target_event_pairs, p_vals, q_vals, correction>>

report_return ==
    /\ pc = "report"
    /\ idx > Len(target_event_pairs)
    /\ pc' = "done"
    /\ UNCHANGED <<up_vars, q_vars>>

NextQ ==
    \/ q_values_iteration
    \/ q_values_return
    \/ yield_header
    \/ report_row
    \/ report_return

SpecQ == InitQ /\ [][NextQ]_vars

\* ================================================================ properties
AfterPrune == pc \in {"precompute_sums", "compute_efs", "bonferroni",
                      "map_contingency_tables", "compute_q_values",
                      "AssertionError"}
AfterSums == pc \in {"compute_efs", "bonferroni", "map_contingency_tables",
                     "compute_q_values"}
AfterEfs == pc \in {"bonferroni", "map_contingency_tables", "compute_q_values"}

MoleculesOfEvents == {m \in Molecules : \E e \in DOMAIN pruned : m \in pruned[e]}
MoleculesOfTargets ==
    {m \in Molecules : \E t \in DOMAIN targets_to_drugs : m \in targets_to_drugs[t]}

\* number of molecules the target and the pruned event have in common
Common(t, e) == Cardinality(targets_to_drugs[t] \cap pruned[e])

\* all (molecule, target, event) co-occurrences of the pruned dataset
Triplets ==
    {x \in Molecules \X (DOMAIN targets_to_drugs) \X (DOMAIN pruned) :
        x[1] \in targets_to_drugs[x[2]] \cap pruned[x[3]]}

\* total number of targets the molecules of S map to
Weight(S) ==
    Cardinality({x \in S \X (DOMAIN targets_to_drugs) : x[1] \in targets_to_drugs[x[2]]})

\* C1: after read_events, read_results and prune_events, the molecules left in
\* the pruned events are exactly the molecules of the targets, and the
\* assertion at the start of precompute_sums never fails.
C1_PrunedMoleculesMatch ==
    /\ AfterPrune => MoleculesOfEvents = MoleculesOfTargets
    /\ pc # "AssertionError"

C1_Witness ==
    /\ pc = "compute_efs"
    /\ rejects # {}
    /\ MoleculesOfTargets # {}
    /\ \E e \in DOMAIN pruned : pruned[e] # events_to_drugs[e]

\* C2: P is the sum of the common-molecule counts over all (event, target)
\* pairs of the pruned EventMap and the TargetMap, pairs below min_pairs and
\* events with E = 0 included.
C2_PCountsAllTriplets ==
    AfterEfs => P = Cardinality(Triplets)

C2_Witness ==
    /\ pc = "bonferroni"
    /\ DOMAIN efs # {}
    /\ \E t \in DOMAIN targets_to_drugs, e \in DOMAIN pruned :
          Common(t, e) > 0 /\ Common(t, e) < min_pairs
    /\ \E e \in DOMAIN pruned : E[e] = 0

\* the value stored for the pair is p.P/(E[event].T[target])
C3_Value(t, e) ==
    efs[<<t, e>>][1] * (E[e] * T[t]) = Common(t, e) * Cardinality(Triplets) * efs[<<t, e>>][2]

\* C3 as claimed: compute_efs returns an entry for a pair if and only if its
\* common-molecule count is >= min_pairs, with value p.P/(E.T) for the final P,
\* whatever ef_cutoff is.
C3_EntryIffMinPairs ==
    pc = "bonferroni" =>
        \A t \in DOMAIN targets_to_drugs, e \in DOMAIN pruned :
            /\ <<t, e>> \in DOMAIN efs <=> Common(t, e) >= min_pairs
            /\ <<t, e>> \in DOMAIN efs => C3_Value(t, e)

\* C3 as amended: compute_efs returns an entry for a pair if and only if its
\* common-molecule count is >= min_pairs and E[event] is not 0, with value
\* p.P/(E.T) for the final P, whatever ef_cutoff is.
C3_EntryIffMinPairsAndE ==
    pc = "bonferroni" =>
        /\ DOMAIN efs \subseteq (DOMAIN targets_to_drugs) \X (DOMAIN pruned)
        /\ \A t \in DOMAIN targets_to_drugs, e \in DOMAIN pruned :
            /\ <<t, e>> \in DOMAIN efs <=> (Common(t, e) >= min_pairs /\ E[e] > 0)
            /\ <<t, e>> \in DOMAIN efs => C3_Value(t, e)

C3_Witness ==
    /\ pc = "bonferroni"
    /\ min_pairs = 0
    /\ DOMAIN efs # {}
    /\ \E e \in DOMAIN pruned : E[e] = 0
    /\ P > 1

\* C4: for every key of the EF mapping the table is [[both, events-only],
\* [targets-only, neither]] in target-count weights; the cells are
\* non-negative and add up to num_pairs.
C4_ContingencyCells ==
    pc = "compute_q_values" =>
        /\ DOMAIN contingencies = DOMAIN efs
        /\ \A key \in DOMAIN efs :
              LET e_drugs == pruned[key[2]]
                  t_drugs == targets_to_drugs[key[1]]
                  table == contingencies[key]
              IN /\ table = <<Weight(e_drugs \cap t_drugs),
                              Weight(e_drugs \ t_drugs),
                              Weight(t_drugs \ e_drugs),
                              Weight(Molecules \ (e_drugs \cup t_drugs))>>
                 /\ \A i \in 1..4 : table[i] >= 0
                 /\ table[1] + table[2] + table[3] + table[4] = Weight(Molecules)

C4_Witness ==
    /\ pc = "compute_q_values"
    /\ \E key \in DOMAIN contingencies :
          /\ contingencies[key][1] >= 2
          /\ contingencies[key][2] >= 1
          /\ contingencies[key][3] >= 1
          /\ Cardinality(pruned[key[2]] \cap targets_to_drugs[key[1]]) = 1

\* C7 as claimed: the name recorded for a target is the one of the first row
\* of the results table that mentions the target, and every target of
\* TargetMap has a name.
C7_NameOfFirstRow ==
    /\ DOMAIN targets_to_drugs \subseteq DOMAIN targets
    /\ \A tid \in DOMAIN targets : targets[tid] = first_row[tid]

\* C7 as amended: the name recorded for a target is the one of the first row
\* mentioning the target whose molecule has an event (the first row that is
\* not rejected), and every target of TargetMap has a name.
C7_NameOfFirstKeptRow ==
    /\ DOMAIN targets = DOMAIN targets_to_drugs
    /\ DOMAIN targets = DOMAIN first_kept
    /\ \A tid \in DOMAIN targets : targets[tid] = first_kept[tid]

C7_Witness ==
    \E tid \in DOMAIN targets :
        /\ first_row[tid] # targets[tid]
        /\ Cardinality(targets_to_drugs[tid]) >= 2

\* C8: an event emptied by pruning stays a key of the pruned EventMap with an
\* empty set, gets E = 0, and is skipped by compute_efs: no EF entry, nothing
\* added to P, no error.
C8_EmptiedEventSkipped ==
    /\ AfterPrune => DOMAIN pruned = DOMAIN events_to_drugs
    /\ AfterSums => \A e \in DOMAIN pruned : pruned[e] = {} => E[e] = 0
    /\ AfterEfs =>
          /\ ef_errors = {}
          /\ \A key \in DOMAIN efs : pruned[key[2]] # {}
          /\ P = Cardinality({x \in Triplets : pruned[x[3]] # {}})

C8_Witness ==
    /\ pc = "bonferroni"
    /\ min_pairs = 0
    /\ DOMAIN targets_to_drugs # {}
    /\ \E e \in DOMAIN pruned : pruned[e] = {}
    /\ \E e \in DOMAIN pruned : pruned[e] # {}

\* C9: with bonferroni set, the count is the number of entries of the EF
\* mapping before the pre-filter and tables are built only for the entries
\* with EF >= ef_cutoff; without it, nothing is filtered and every entry gets
\* a table.
C9_PrefilterAndCount ==
    [][/\ (pc = "bonferroni" /\ pc' = "map_contingency_tables") =>
             IF bonferroni
             THEN /\ bonferroni_count' = Some(Cardinality(DOMAIN efs))
                  /\ DOMAIN efs' = {key \in DOMAIN efs :
                                       efs[key][1] >= ef_cutoff * efs[key][2]}
                  /\ \A key \in DOMAIN efs' : efs'[key] = efs[key]
             ELSE /\ bonferroni_count' = None
                  /\ efs' = efs
       /\ (pc = "map_contingency_tables" /\ pc' = "compute_q_values") =>
             /\ DOMAIN contingencies' = DOMAIN efs
             /\ efs' = efs]_vars

C9_Witness ==
    /\ pc = "compute_q_values"
    /\ bonferroni
    /\ bonferroni_count # None
    /\ DOMAIN contingencies # {}
    /\ bonferroni_count[1] > Cardinality(DOMAIN contingencies)

\* C10: every target has a molecule and each of its molecules has an event,
\* so T >= 1, and every pair that reaches the division has E >= 1 and T >= 1:
\* the error branch is never taken and no pair meeting min_pairs is dropped
\* by it.
C10_NoZeroDenominator ==
    /\ (AfterPrune /\ pc # "AssertionError") =>
          \A t \in DOMAIN targets_to_drugs :
              /\ targets_to_drugs[t] # {}
              /\ \A m \in targets_to_drugs[t] : \E e \in DOMAIN pruned : m \in pruned[e]
    /\ AfterSums => \A t \in DOMAIN targets_to_drugs : T[t] >= 1
    /\ pc = "bonferroni" =>
          /\ ef_errors = {}
          /\ \A t \in DOMAIN targets_to_drugs, e \in DOMAIN pruned :
                (E[e] # 0 /\ Common(t, e) >= min_pairs) =>
                    E[e] >= 1 /\ T[t] >= 1 /\ <<t, e>> \in DOMAIN efs

C10_Witness ==
    /\ pc = "bonferroni"
    /\ DOMAIN efs # {}
    /\ min_pairs = 0
    /\ \E e \in DOMAIN pruned : E[e] = 0

\* ---------------------------------------------------------------- SpecQ
AfterCorrection == pc \in {"yield_header", "report", "done"}

\* C5: whenever a count is supplied (anything but None) the q-values are
\* p-value x count, unclipped, and Holm is not applied; Holm is applied only
\* when no count is supplied.
C5_BonferroniWheneverSupplied ==
    AfterCorrection =>
        IF bonferroni_count # None
        THEN /\ correction = "Bonferroni"
             /\ \A i \in 1..Len(p_vals) : q_vals[i] = p_vals[i] * bonferroni_count[1]
        ELSE correction = "Holm"

\* the pair at position i of the zip passes both cutoffs strictly
C6_Passes(i) ==
    LET ef == efs[target_event_pairs[i]]
    IN ef[1] > ef_cutoff * ef[2] /\ q_vals[i] < qvalue_cutoff

RECURSIVE C6_Rows(_)
\* the rows of the passing pairs among the first n, in collection order
C6_Rows(n) ==
    IF n = 0 THEN <<>>
    ELSE LET te == target_event_pairs[n]
         IN IF C6_Passes(n)
            THEN Append(C6_Rows(n - 1), <<te[1], targets[te[1]], te[2]>>)
            ELSE C6_Rows(n - 1)

\* C6: the header is yielded once and first; a tested pair gets a row if and
\* only if EF > ef_cutoff and q < qvalue_cutoff, both strict, once, in the
\* order in which the pairs were collected.
C6_HeaderThenStrictRows ==
    /\ pc \in {"compute_q_values", "yield_header"} => out = <<>>
    /\ pc = "report" => out = <<Header>> \o C6_Rows(idx - 1)
    /\ pc = "done" =>
          /\ out = <<Header>> \o C6_Rows(Len(target_event_pairs))
          /\ SeqRange(target_event_pairs) = DOMAIN contingencies
          /\ Len(target_event_pairs) = Cardinality(DOMAIN contingencies)
          /\ \A i \in 2..Len(out) : out[i] # Header
          /\ \A i, j \in 2..Len(out) : i # j => out[i] # out[j]

C6_Witness ==
    /\ pc = "done"
    /\ Len(out) >= 2
    /\ \E i \in 1..Len(target_event_pairs) :
          LET ef == efs[target_event_pairs[i]]
          IN ef[1] = ef_cutoff * ef[2] /\ q_vals[i] < qvalue_cutoff
    /\ \E i \in 1..Len(target_event_pairs) :
          LET ef == efs[target_event_pairs[i]]
          IN ef[1] > ef_cutoff * ef[2] /\ q_vals[i] = qvalue_cutoff

====
